---- MODULE Spec2Model ----
(***************************************************************************)
(* Voyager text browser: content model and navigation engine.              *)
(*                                                                         *)
(* The sources hold two versions of the App type: the monolithic one of    *)
(* src/main.rs (kuchiki converter, back/forward history, the event loop)   *)
(* and the modular one of src/app.rs (html2text converter, image preview). *)
(* The variable `build` names the one a behaviour runs: "main" is the      *)
(* program of main.rs, "app" is the public API of app.rs driven by a       *)
(* caller that may go on after an Err.                                     *)
(*                                                                         *)
(* Strings are sequences of one-character strings, Option<T> is a sequence *)
(* of length 0 (None) or 1 (Some), Vec indices are 0-based as in Rust.     *)
(***************************************************************************)
EXTENDS Integers, Sequences, FiniteSets, TLC

VARIABLES build, web, images, app, pc, screen, last, trail

vars == <<build, web, images, app, pc, screen, last, trail>>

(* ---------------------------------------------------------------- bounds *)
MaxHist == 2
MaxScroll == 1
MaxDocLen == 2

(* --------------------------------------------------------------- strings *)
HTTP == <<"h", "t", "t", "p", ":", "/", "/">>
HTTPS == <<"h", "t", "t", "p", "s", ":", "/", "/">>

StartsWith(s, p) == Len(s) >= Len(p) /\ SubSeq(s, 1, Len(p)) = p

RECURSIVE TrimStart(_)
TrimStart(s) == IF s # <<>> /\ Head(s) = " " THEN TrimStart(Tail(s)) ELSE s

RECURSIVE TrimEnd(_)
TrimEnd(s) ==
    IF s # <<>> /\ s[Len(s)] = " " THEN TrimEnd(SubSeq(s, 1, Len(s) - 1)) ELSE s

Trim(s) == TrimEnd(TrimStart(s))

UpperChar(c) ==
    CASE c = "t" -> "T"
      [] c = "l" -> "L"
      [] c = "s" -> "S"
      [] c = "i" -> "I"
      [] OTHER -> c

to_uppercase(s) == [i \in 1..Len(s) |-> UpperChar(s[i])]

(* the index of the first " " of s at or after i, Len(s) + 1 when none *)
RECURSIVE WordEnd(_, _)
WordEnd(s, i) == IF i > Len(s) \/ s[i] = " " THEN i ELSE WordEnd(s, i + 1)

(* the words of t, which starts with no whitespace *)
RECURSIVE Words(_)
Words(t) ==
    IF t = <<>> THEN <<>>
    ELSE <<SubSeq(t, 1, WordEnd(t, 1) - 1)>>
         \o Words(TrimStart(SubSeq(t, WordEnd(t, 1), Len(t))))

split_whitespace(s) == Words(TrimStart(s))

DigitChar(n) == CASE n = 0 -> "0" [] n = 1 -> "1" [] n = 2 -> "2" [] n = 3 -> "3"
                  [] n = 4 -> "4" [] n = 5 -> "5" [] n = 6 -> "6" [] n = 7 -> "7"
                  [] n = 8 -> "8" [] OTHER -> "9"

RECURSIVE Decimal(_)
Decimal(n) == IF n < 10 THEN <<DigitChar(n)>> ELSE Decimal(n \div 10) \o <<DigitChar(n % 10)>>

(* ------------------------------------------------------------------ urls *)
SchemeOf(u) == IF StartsWith(u, HTTPS) THEN HTTPS ELSE IF StartsWith(u, HTTP) THEN HTTP ELSE <<>>

(* the index of the first "/" of u at or after i, Len(u) + 1 when none *)
RECURSIVE PathStart(_, _)
PathStart(u, i) == IF i > Len(u) \/ u[i] = "/" THEN i ELSE PathStart(u, i + 1)

(* scheme and host of an absolute http(s) url: everything before the first *)
(* "/" that follows the scheme                                             *)
Origin(u) == SubSeq(u, 1, PathStart(u, Len(SchemeOf(u)) + 1) - 1)

(* Url::parse(u).to_string(): an empty path is written as "/" *)
UrlString(u) == IF Origin(u) = u THEN u \o <<"/">> ELSE u

(* base_url.join(href): None when the reference cannot be resolved *)
Join(base, href) ==
    IF SchemeOf(href) # <<>>
    THEN IF Len(href) > Len(SchemeOf(href)) THEN <<UrlString(href)>> ELSE <<>>
    ELSE IF StartsWith(href, <<"/", "/">>) THEN <<>>
    ELSE IF StartsWith(href, <<"/">>) THEN <<Origin(base) \o href>>
    ELSE <<Origin(base) \o <<"/">> \o href>>

(* ---------------------------------------------------------------- styles *)
DefaultStyle == [fg |-> "None", bg |-> "None", mods |-> {}]

LINK_COLOR_WEB == "Blue"
LINK_COLOR_IMG == "Magenta"

(* A span is one styled run.  `origin` is a ghost field: the place of the  *)
(* converter that pushed the run.  No operation of the program reads it.   *)
Span(content, style, origin) == [content |-> content, style |-> style, origin |-> origin]

(* ------------------------------------------------------------- documents *)
(* A document is the sequence of its elements in document order.  An       *)
(* element has a tag, its text, an optional href (src for img) and, for an *)
(* anchor, what it wraps: "none" (text), "strong" or "img".                *)
Elem(tag, text, href, inner) == [tag |-> tag, text |-> text, href |-> href, inner |-> inner]

Heading1 == Elem("h1", <<" ", "t", " ">>, <<>>, "none")
Heading2 == Elem("h2", <<"t">>, <<>>, "none")
Para == Elem("p", <<"s">>, <<>>, "none")
BlankPara == Elem("p", <<" ">>, <<>>, "none")
Anchor == Elem("a", <<"l">>, <<<<"/", "x">>>>, "none")
AnchorNoHref == Elem("a", <<"l">>, <<>>, "none")
AnchorNoText == Elem("a", <<>>, <<HTTP \o <<"b">>>>, "none")
AnchorBadHref == Elem("a", <<"t">>, <<<<"/", "/">>>>, "none")
Image == Elem("img", <<"i">>, <<<<"/", "i">>>>, "none")
Strong == Elem("strong", <<"s">>, <<>>, "none")
AnchorStrong == Elem("a", <<"s">>, <<HTTP \o <<"b">>>>, "strong")
AnchorImage == Elem("a", <<"i">>, <<<<"/", "x">>>>, "img")

Elems ==
    { Heading1, Heading2, Para, BlankPara, Anchor, AnchorNoHref, AnchorNoText,
      AnchorBadHref, Image, Strong, AnchorStrong, AnchorImage }

RECURSIVE SeqsUpTo(_, _)
SeqsUpTo(S, n) ==
    IF n = 0 THEN {<<>>}
    ELSE LET shorter == SeqsUpTo(S, n - 1)
         IN shorter \cup {Append(d, e) : d \in shorter, e \in S}

Docs == SeqsUpTo(Elems, MaxDocLen)

IsBlock(e) == e.tag \in {"h1", "h2", "p"}

(* kuchiki: document.select("h1, h2, p, a"), each match with its tag name, *)
(* its text_contents() and its href attribute                              *)
RECURSIVE KuchikiSelect(_)
KuchikiSelect(doc) ==
    IF doc = <<>> THEN <<>>
    ELSE LET e == Head(doc)
             m == [tag |-> e.tag,
                   text |-> IF e.inner = "img" THEN <<>> ELSE e.text,
                   href |-> e.href]
         IN (IF e.tag \in {"h1", "h2", "p", "a"} THEN <<m>> ELSE <<>>)
            \o KuchikiSelect(Tail(doc))

Annotation(kind, target) == [kind |-> kind, target |-> target]

ImgSrc == <<"/", "i">>

(* the tagged string html2text makes of one element: its text and the     *)
(* annotations of the elements around it, outermost first                  *)
TaggedOf(e) ==
    [s |-> CASE e.tag = "h1" -> <<"#", " ">> \o Trim(e.text)
             [] e.tag = "h2" -> <<"#", "#", " ">> \o Trim(e.text)
             [] OTHER -> e.text,
     tag |-> CASE e.tag = "a" /\ e.href # <<>> ->
                    <<Annotation("Link", e.href[1])>>
                    \o (CASE e.inner = "strong" -> <<Annotation("Strong", <<>>)>>
                          [] e.inner = "img" -> <<Annotation("Image", ImgSrc)>>
                          [] OTHER -> <<>>)
               [] e.tag = "img" -> <<Annotation("Image", e.href[1])>>
               [] e.tag = "strong" -> <<Annotation("Strong", <<>>)>>
               [] OTHER -> <<>>]

(* html2text::from_read_rich: a block element is a line of its own, a run  *)
(* of inline elements shares one line; an element with no text gives no    *)
(* tagged string                                                           *)
TaggedStrings(e) == IF Trim(e.text) = <<>> THEN <<>> ELSE <<TaggedOf(e)>>

RECURSIVE RichLines(_, _, _)
RichLines(doc, cur, open) ==
    IF doc = <<>> THEN (IF open THEN <<cur>> ELSE <<>>)
    ELSE IF IsBlock(Head(doc))
         THEN (IF open THEN <<cur>> ELSE <<>>)
              \o <<TaggedStrings(Head(doc))>>
              \o RichLines(Tail(doc), <<>>, FALSE)
         ELSE RichLines(Tail(doc), cur \o TaggedStrings(Head(doc)), TRUE)

from_read_rich(doc) == RichLines(doc, <<>>, FALSE)

(* ------------------------------------------------- main.rs: the converter *)
LinkDataMain(text, url) == [text |-> text, url |-> url]

(* base_url.join(href).map(|u| u.to_string()).unwrap_or(href) *)
Resolved(joined, raw) == IF joined # <<>> THEN joined[1] ELSE raw

AbsUrl(base_url, href) == Resolved(Join(base_url, href), href)

(* main.rs 121, 127, 137: the styles of h1, h2 and a *)
HeadingStyle1 == [fg |-> "Cyan", bg |-> "None", mods |-> {"BOLD"}]

HeadingStyle2Blue == [fg |-> "Blue", bg |-> "None", mods |-> {"BOLD"}]

HeadingStyle2 == [fg |-> "Green", bg |-> "None", mods |-> {"BOLD"}]

AnchorStyle == [fg |-> "Blue", bg |-> "None", mods |-> {"UNDERLINED"}]

(* main.rs 115-144: one match whose trimmed text is `text` *)
Matched(m, text, base_url, acc) ==
    IF text = <<>> THEN acc
    ELSE CASE m.tag = "h1" ->
                [acc EXCEPT !.lines = Append(@, <<Span(<<"\n", "#", " ">> \o to_uppercase(text) \o <<"\n">>,
                                                     HeadingStyle1, "h1")>>)]
           [] m.tag = "h2" ->
                [acc EXCEPT !.lines = Append(@, <<Span(<<"\n", "#", "#", " ">> \o text \o <<"\n">>,
                                                     HeadingStyle2, "h2")>>)]
           [] m.tag = "a" ->
                IF m.href # <<>>
                THEN [acc EXCEPT
                        !.links = Append(@, LinkDataMain(text, AbsUrl(base_url, m.href[1]))),
                        !.lines = Append(@, <<Span(<<" ", "[">> \o text \o <<"]", " ">>,
                                                   AnchorStyle, "a")>>)]
                ELSE acc
           [] OTHER ->
                [acc EXCEPT !.lines = Append(@, <<Span(text, DefaultStyle, "text")>>)]

(* main.rs 112-145: the body of the loop for one match *)
ConvertMatch(m, base_url, acc) == Matched(m, Trim(m.text), base_url, acc)

RECURSIVE ConvertMatches(_, _, _)
ConvertMatches(ms, base_url, acc) ==
    IF ms = <<>> THEN acc
    ELSE ConvertMatches(Tail(ms), base_url, ConvertMatch(Head(ms), base_url, acc))

(* ------------------------------------------------- app.rs: the converter *)
LinkData(url, link_type) == [url |-> url, link_type |-> link_type]

(* app.rs 72-83: one annotation, `abs` its target joined to the base *)
Annotated(a, abs, st) ==
    CASE a.kind = "Link" -> [st EXCEPT !.current_link = <<<<abs, "Web">>>>]
      [] a.kind = "Image" -> [st EXCEPT !.current_link = <<<<abs, "Image">>>>]
      [] a.kind = "Strong" -> [st EXCEPT !.style.mods = @ \cup {"BOLD"}]
      [] OTHER -> st

(* app.rs 71-84: the annotations of one tagged string, in order *)
RECURSIVE Annotate(_, _, _)
Annotate(tag, base_url, st) ==
    IF tag = <<>> THEN st
    ELSE Annotate(Tail(tag), base_url,
                  Annotated(Head(tag), AbsUrl(base_url, Head(tag).target), st))

(* app.rs 86-99: the spans and the link of one tagged string, `st` the     *)
(* style and current_link its annotations gave                            *)
Tagged(ts, st, acc) ==
    IF st.current_link # <<>>
    THEN [spans |-> acc.spans
                    \o <<Span(<<"[">> \o Decimal(acc.link_counter) \o <<"]">>,
                              [fg |-> "DarkGray", bg |-> "None", mods |-> {}], "label"),
                         Span(ts.s,
                              IF st.current_link[1][2] = "Web"
                              THEN [fg |-> LINK_COLOR_WEB, bg |-> "None", mods |-> {"UNDERLINED"}]
                              ELSE [fg |-> LINK_COLOR_IMG, bg |-> "None", mods |-> {"ITALIC"}],
                              "link")>>,
          links |-> Append(acc.links, LinkData(st.current_link[1][1], st.current_link[1][2])),
          link_counter |-> acc.link_counter + 1]
    ELSE [acc EXCEPT !.spans = Append(@, Span(ts.s, st.style, "plain"))]

(* app.rs 67-100: the body of the loop for one tagged string *)
ConvertTagged(ts, base_url, acc) ==
    Tagged(ts, Annotate(ts.tag, base_url, [style |-> DefaultStyle, current_link |-> <<>>]), acc)

RECURSIVE ConvertLine(_, _, _)
ConvertLine(tss, base_url, acc) ==
    IF tss = <<>> THEN acc
    ELSE ConvertLine(Tail(tss), base_url, ConvertTagged(Head(tss), base_url, acc))

(* app.rs 101: new_lines.push(Line::from(spans)) *)
LineDone(acc, r) ==
    [lines |-> Append(acc.lines, r.spans), links |-> r.links, link_counter |-> r.link_counter]

(* app.rs 65-102: the loop over the rich lines *)
RECURSIVE ConvertRich(_, _, _)
ConvertRich(rich_lines, base_url, acc) ==
    IF rich_lines = <<>> THEN acc
    ELSE ConvertRich(Tail(rich_lines), base_url,
                     LineDone(acc, ConvertLine(Head(rich_lines), base_url,
                                               [spans |-> <<>>, links |-> acc.links,
                                                link_counter |-> acc.link_counter])))

(* ------------------------------------------------------------- the fetch *)
(* client.get(url).send(), Url::parse(url) and res.text(): Ok with the     *)
(* document of the address when the transport works (net) and the address *)
(* is one the web serves, Err otherwise                                    *)
FetchOk(w, url, net) == net /\ url \in DOMAIN w

Status(msg, arg) == [msg |-> msg, arg |-> arg]

(* the outcome of a handler: the App it leaves, whether it returned Err,   *)
(* whether the loop breaks, and two ghosts: the fetches it made and the    *)
(* navigation calls it made                                                *)
Outcome(a, err, brk, fetches, calls) ==
    [app |-> a, err |-> err, brk |-> brk, fetches |-> fetches, calls |-> calls]

Call(f, arg) == [f |-> f, arg |-> arg]

(* --------------------------------------------------------- main.rs: App *)
new(start_url) ==
    [current_url |-> start_url, content_lines |-> <<>>, links |-> <<>>,
     selected_link_idx |-> 0, scroll |-> 0, status |-> Status("Voyager Ready", <<>>),
     mode |-> "Normal", command_buffer |-> <<>>, history |-> <<>>, future |-> <<>>]

(* main.rs 147-152: the new content replaces the old *)
Loaded(a, conv) ==
    [a EXCEPT !.content_lines = conv.lines,
              !.links = conv.links,
              !.selected_link_idx = 0,
              !.scroll = 0,
              !.status = Status("Loaded", a.current_url)]

fetch_page_clears_first(a, w, net) ==
    IF ~FetchOk(w, a.current_url, net)
    THEN Outcome([a EXCEPT !.status = Status("Fetching", a.current_url),
                           !.content_lines = <<>>, !.links = <<>>,
                           !.selected_link_idx = 0, !.scroll = 0],
                 TRUE, FALSE, 1, <<>>)
    ELSE Outcome(Loaded(a, ConvertMatches(KuchikiSelect(w[a.current_url]), a.current_url,
                                          [lines |-> <<>>, links |-> <<>>])),
                 FALSE, FALSE, 1, <<>>)

fetch_page(a, w, net) ==
    IF ~FetchOk(w, a.current_url, net)
    THEN Outcome([a EXCEPT !.status = Status("Fetching", a.current_url)], TRUE, FALSE, 1, <<>>)
    ELSE Outcome(Loaded(a, ConvertMatches(KuchikiSelect(w[a.current_url]), a.current_url,
                                          [lines |-> <<>>, links |-> <<>>])),
                 FALSE, FALSE, 1, <<>>)

Normalized_as_typed(url) == url

Normalized(url) ==
    IF ~StartsWith(url, HTTP) /\ ~StartsWith(url, HTTPS) THEN HTTPS \o url ELSE url

navigate_keeps_future(a, url, w, net) ==
    LET u == Normalized(url)
        a1 == IF a.current_url # <<>>
              THEN [a EXCEPT !.history = Append(@, a.current_url)]
              ELSE a
        a2 == [a1 EXCEPT !.current_url = u]
        r == fetch_page(a2, w, net)
    IN [r EXCEPT !.calls = <<Call("navigate", u)>>]

navigate(a, url, w, net) ==
    LET u == Normalized(url)
        a1 == IF a.current_url # <<>>
              THEN [a EXCEPT !.history = Append(@, a.current_url)]
              ELSE a
        a2 == [a1 EXCEPT !.future = <<>>, !.current_url = u]
        r == fetch_page(a2, w, net)
    IN [r EXCEPT !.calls = <<Call("navigate", u)>>]

go_back_drops_current(a, w, net) ==
    IF a.history # <<>>
    THEN LET prev_url == a.history[Len(a.history)]
             a1 == [a EXCEPT !.history = SubSeq(@, 1, Len(@) - 1),
                             !.current_url = prev_url]
             r == fetch_page(a1, w, net)
         IN [r EXCEPT !.calls = <<Call("go_back", <<>>)>>]
    ELSE Outcome([a EXCEPT !.status = Status("No back history", <<>>)],
                 FALSE, FALSE, 0, <<Call("go_back", <<>>)>>)

go_back_pushes_first(a, w, net) ==
    IF a.history # <<>>
    THEN LET prev_url == a.history[Len(a.history)]
             a1 == [a EXCEPT !.history = SubSeq(@, 1, Len(@) - 1),
                             !.future = Append(@, a.current_url),
                             !.current_url = prev_url]
             r == fetch_page(a1, w, net)
         IN [r EXCEPT !.calls = <<Call("go_back", <<>>)>>]
    ELSE Outcome([a EXCEPT !.status = Status("No back history", <<>>),
                           !.future = Append(@, a.current_url)],
                 FALSE, FALSE, 0, <<Call("go_back", <<>>)>>)

go_back(a, w, net) ==
    IF a.history # <<>>
    THEN LET prev_url == a.history[Len(a.history)]
             a1 == [a EXCEPT !.history = SubSeq(@, 1, Len(@) - 1),
                             !.future = Append(@, a.current_url),
                             !.current_url = prev_url]
             r == fetch_page(a1, w, net)
         IN [r EXCEPT !.calls = <<Call("go_back", <<>>)>>]
    ELSE Outcome([a EXCEPT !.status = Status("No back history", <<>>)],
                 FALSE, FALSE, 0, <<Call("go_back", <<>>)>>)

go_forward_no_push(a, w, net) ==
    IF a.future # <<>>
    THEN LET next_url == a.future[Len(a.future)]
             a1 == [a EXCEPT !.future = SubSeq(@, 1, Len(@) - 1),
                             !.current_url = next_url]
             r == fetch_page(a1, w, net)
         IN [r EXCEPT !.calls = <<Call("go_forward", <<>>)>>]
    ELSE Outcome([a EXCEPT !.status = Status("No forward history", <<>>)],
                 FALSE, FALSE, 0, <<Call("go_forward", <<>>)>>)

go_forward_pushes_next(a, w, net) ==
    IF a.future # <<>>
    THEN LET next_url == a.future[Len(a.future)]
             a1 == [a EXCEPT !.future = SubSeq(@, 1, Len(@) - 1),
                             !.history = Append(@, next_url),
                             !.current_url = next_url]
             r == fetch_page(a1, w, net)
         IN [r EXCEPT !.calls = <<Call("go_forward", <<>>)>>]
    ELSE Outcome([a EXCEPT !.status = Status("No forward history", <<>>)],
                 FALSE, FALSE, 0, <<Call("go_forward", <<>>)>>)

go_forward(a, w, net) ==
    IF a.future # <<>>
    THEN LET next_url == a.future[Len(a.future)]
             a1 == [a EXCEPT !.future = SubSeq(@, 1, Len(@) - 1),
                             !.history = Append(@, a.current_url),
                             !.current_url = next_url]
             r == fetch_page(a1, w, net)
         IN [r EXCEPT !.calls = <<Call("go_forward", <<>>)>>]
    ELSE Outcome([a EXCEPT !.status = Status("No forward history", <<>>)],
                 FALSE, FALSE, 0, <<Call("go_forward", <<>>)>>)

HighlightMain == [fg |-> "Black", bg |-> "Yellow", mods |-> {"BOLD"}]

RECURSIVE render_line_no_count(_, _, _, _)
render_line_no_count(line, selected, link_count, spans) ==
    IF line = <<>> THEN [spans |-> spans, link_count |-> link_count]
    ELSE LET span == Head(line)
         IN IF span.style.fg = "Blue"
            THEN LET style == IF link_count = selected THEN HighlightMain ELSE span.style
                 IN render_line_no_count(Tail(line), selected, link_count,
                                         Append(spans, Span(span.content, style, span.origin)))
            ELSE render_line_no_count(Tail(line), selected, link_count, Append(spans, span))

(* main.rs 161-174: the spans of one line, link_count carried along *)
RECURSIVE render_line(_, _, _, _)
render_line(line, selected, link_count, spans) ==
    IF line = <<>> THEN [spans |-> spans, link_count |-> link_count]
    ELSE LET span == Head(line)
         IN IF span.style.fg = "Blue"
            THEN LET style == IF link_count = selected THEN HighlightMain ELSE span.style
                 IN render_line(Tail(line), selected, link_count + 1,
                                Append(spans, Span(span.content, style, span.origin)))
            ELSE render_line(Tail(line), selected, link_count, Append(spans, span))

RECURSIVE render_lines(_, _, _, _)
render_lines(lines, selected, link_count, rendered) ==
    IF lines = <<>> THEN rendered
    ELSE LET r == render_line(Head(lines), selected, link_count, <<>>)
         IN render_lines(Tail(lines), selected, r.link_count, Append(rendered, r.spans))

render_content(a) == render_lines(a.content_lines, a.selected_link_idx, 0, <<>>)

(* ---------------------------------------------------------- app.rs: App *)
app_new(start_url) ==
    [current_url |-> start_url, content_lines |-> <<>>, links |-> <<>>,
     selected_link_idx |-> 0, scroll |-> 0, status |-> Status("Voyager Ready", <<>>),
     mode |-> "Normal", command_buffer |-> <<>>, history |-> <<>>, future |-> <<>>,
     image_preview |-> <<>>]

app_fetch_page(a, w, net) ==
    IF ~FetchOk(w, a.current_url, net)
    THEN Outcome([a EXCEPT !.status = Status("Fetching", a.current_url)], TRUE, FALSE, 1, <<>>)
    ELSE Outcome(Loaded(a, ConvertRich(from_read_rich(w[a.current_url]), a.current_url,
                                       [lines |-> <<>>, links |-> <<>>, link_counter |-> 0])),
                 FALSE, FALSE, 1, <<>>)

app_navigate_always_pushes(a, url, w, net) ==
    LET u == Normalized(url)
        a1 == [a EXCEPT !.history = Append(@, a.current_url)]
        a2 == [a1 EXCEPT !.future = <<>>, !.current_url = u]
        r == app_fetch_page(a2, w, net)
    IN [r EXCEPT !.calls = <<Call("navigate", u)>>]

app_navigate(a, url, w, net) ==
    LET u == Normalized(url)
        a1 == IF a.current_url # <<>>
              THEN [a EXCEPT !.history = Append(@, a.current_url)]
              ELSE a
        a2 == [a1 EXCEPT !.future = <<>>, !.current_url = u]
        r == app_fetch_page(a2, w, net)
    IN [r EXCEPT !.calls = <<Call("navigate", u)>>]

(* app.rs 144-153: the spans of one line, current_idx carried along *)
RECURSIVE app_render_line(_, _, _, _)
app_render_line(line, selected, current_idx, spans) ==
    IF line = <<>> THEN [spans |-> spans, current_idx |-> current_idx]
    ELSE LET s == Head(line)
         IN IF s.style.fg = LINK_COLOR_WEB \/ s.style.fg = LINK_COLOR_IMG
            THEN LET s2 == IF current_idx = selected
                           THEN [s EXCEPT !.style = [fg |-> "Black", bg |-> "Yellow",
                                                    mods |-> s.style.mods \cup {"BOLD"}]]
                           ELSE s
                 IN app_render_line(Tail(line), selected, current_idx + 1, Append(spans, s2))
            ELSE app_render_line(Tail(line), selected, current_idx, Append(spans, s))

RECURSIVE app_render_lines(_, _, _, _)
app_render_lines(lines, selected, current_idx, rendered) ==
    IF lines = <<>> THEN rendered
    ELSE LET r == app_render_line(Head(lines), selected, current_idx, <<>>)
         IN app_render_lines(Tail(lines), selected, r.current_idx, Append(rendered, r.spans))

app_render_content(a) == app_render_lines(a.content_lines, a.selected_link_idx, 0, <<>>)

(* -------------------------------------------------- app.rs: image preview *)
(* f32: the value m * 2^e with 2^23 <= m < 2^24 (24 significant bits)      *)
F32Bits == 24

F32(m, e) == IF m = 2^F32Bits THEN [m |-> 2^(F32Bits - 1), e |-> e + 1] ELSE [m |-> m, e |-> e]

(* n / d to the nearest integer, ties to even *)
RoundHalfEven(n, d) ==
    IF 2 * (n % d) > d \/ (2 * (n % d) = d /\ (n \div d) % 2 = 1)
    THEN (n \div d) + 1
    ELSE n \div d

(* the shift that brings n / d into [2^23, 2^24) *)
RECURSIVE DivShift(_, _, _)
DivShift(n, d, k) == IF (n * 2^k) \div d >= 2^(F32Bits - 1) THEN k ELSE DivShift(n, d, k + 1)

Quotient(n, d, k) == F32(RoundHalfEven(n * 2^k, d), 0 - k)

(* h as f32 / w as f32 *)
f32_div(h, w) == Quotient(h, w, DivShift(h, w, 0))

RECURSIVE MulShift(_, _)
MulShift(prod, s) == IF prod \div 2^s < 2^F32Bits THEN s ELSE MulShift(prod, s + 1)

Product(prod, e, s) == F32(RoundHalfEven(prod, 2^s), e + s)

(* c as f32 * x, for a small integer c *)
f32_mul(c, x) == Product(c * x.m, x.e, MulShift(c * x.m, 0))

(* x * 0.5 *)
f32_half(x) == [x EXCEPT !.e = @ - 1]

(* x as u32: the fraction is cut off *)
as_u32(x) ==
    IF x.e >= 0 THEN x.m * 2^x.e
    ELSE IF 0 - x.e >= 2 * F32Bits THEN 0
    ELSE x.m \div 2^(0 - x.e)

new_w == 80

new_h(w, h) == as_u32(f32_half(f32_mul(new_w, f32_div(h, w))))

(* the grave accent U+0060, a character the strings of this notation     *)
(* cannot hold                                                           *)
Grave == "grave"

charset == <<" ", Grave, ".", "!", "|", ":", "-", "=", "m", "+", "*", "#", "%", "@">>

(* what a URL serves to reqwest::get: an image of w x h pixels, every one  *)
(* of luminance p, or bytes that are no image                              *)
Img(w, h, p) == [ok |-> TRUE, w |-> w, h |-> h, p |-> p]
NotAnImage == [ok |-> FALSE, w |-> 0, h |-> 0, p |-> 0]

(* reqwest::get(url).await?.bytes().await? *)
BytesOk(w, imgs, url, net) == net /\ url \in (DOMAIN w \cup DOMAIN imgs)

(* image::load_from_memory(&res): a served page is no image *)
load_from_memory(imgs, url) == IF url \in DOMAIN imgs THEN imgs[url] ELSE NotAnImage

(* resized.to_luma8().get_pixel(x, y)[0] of an image of one luminance *)
get_pixel(img, x, y) == img.p

idx_rounded(p) == (p * (Len(charset) - 1) + 127) \div 255

idx(p) == (p * (Len(charset) - 1)) \div 255

(* app.rs 124-133 *)
AsciiArt(img, rows) ==
    [y \in 1..rows |-> [x \in 1..new_w |-> charset[idx(get_pixel(img, x - 1, y - 1)) + 1]]]

Previewed(a, img) ==
    [a EXCEPT !.image_preview = <<AsciiArt(img, new_h(img.w, img.h))>>,
              !.status = Status("Image AA Loaded. Press ESC to close.", <<>>)]

Decoded(a, img, url) ==
    IF ~img.ok
    THEN Outcome(a, TRUE, FALSE, 1, <<Call("preview_image", url)>>)
    ELSE Outcome(Previewed(a, img), FALSE, FALSE, 1, <<Call("preview_image", url)>>)

Processing(a, url) == [a EXCEPT !.status = Status("Processing Image AA", url)]

preview_image_clears_page(a, url, w, imgs, net) ==
    IF ~BytesOk(w, imgs, url, net)
    THEN Outcome(Processing(a, url), TRUE, FALSE, 1, <<Call("preview_image", url)>>)
    ELSE Decoded([Processing(a, url) EXCEPT !.content_lines = <<>>, !.links = <<>>],
                 load_from_memory(imgs, url), url)

preview_image_closes_first(a, url, w, imgs, net) ==
    IF ~BytesOk(w, imgs, url, net)
    THEN Outcome([Processing(a, url) EXCEPT !.image_preview = <<>>],
                 TRUE, FALSE, 1, <<Call("preview_image", url)>>)
    ELSE Decoded([Processing(a, url) EXCEPT !.image_preview = <<>>],
                 load_from_memory(imgs, url), url)

preview_image(a, url, w, imgs, net) ==
    IF ~BytesOk(w, imgs, url, net)
    THEN Outcome(Processing(a, url), TRUE, FALSE, 1, <<Call("preview_image", url)>>)
    ELSE Decoded(Processing(a, url), load_from_memory(imgs, url), url)

(* ------------------------------------------------------ main.rs: the keys *)
U16Max == 65535

CmdQ == <<"q">>
CmdQuit == <<"q", "u", "i", "t">>
CmdB == <<"b">>
CmdBack == <<"b", "a", "c", "k">>
CmdF == <<"f">>
CmdFront == <<"f", "r", "o", "n", "t">>
CmdUrl == <<"u", "r", "l">>

key_colon_keeps_buffer(a) == [a EXCEPT !.mode = "Command"]

key_colon(a) == [a EXCEPT !.mode = "Command", !.command_buffer = <<>>]

key_j(a) == [a EXCEPT !.scroll = IF @ < U16Max THEN @ + 1 ELSE @]

key_k(a) == [a EXCEPT !.scroll = IF @ > 0 THEN @ - 1 ELSE 0]

key_l_no_wrap(a) ==
    IF a.links # <<>>
    THEN [a EXCEPT !.selected_link_idx = @ + 1]
    ELSE a

key_l_wraps_late(a) ==
    IF a.links # <<>>
    THEN [a EXCEPT !.selected_link_idx = (@ + 1) % (Len(a.links) + 1)]
    ELSE a

key_l(a) ==
    IF a.links # <<>>
    THEN [a EXCEPT !.selected_link_idx = (@ + 1) % Len(a.links)]
    ELSE a

key_h_stops_at_zero(a) ==
    IF a.links # <<>>
    THEN [a EXCEPT !.selected_link_idx = IF @ = 0 THEN 0 ELSE @ - 1]
    ELSE a

key_h(a) ==
    IF a.links # <<>>
    THEN [a EXCEPT !.selected_link_idx = IF @ = 0 THEN Len(a.links) - 1 ELSE @ - 1]
    ELSE a

key_enter(a, w, net) ==
    IF a.links # <<>>
    THEN navigate(a, a.links[a.selected_link_idx + 1].url, w, net)
    ELSE Outcome(a, FALSE, FALSE, 0, <<>>)

(* `?` on a command's result: an Err leaves main before mode is reset *)
AfterCommand(r) == IF r.err THEN r ELSE [r EXCEPT !.app.mode = "Normal"]

(* main.rs 267-280: the command whose words are `parts` *)
Dispatch(a, parts, w, net) ==
    IF parts = <<>> THEN Outcome([a EXCEPT !.mode = "Normal"], FALSE, FALSE, 0, <<>>)
    ELSE CASE parts[1] \in {CmdQ, CmdQuit} -> Outcome(a, FALSE, TRUE, 0, <<>>)
           [] parts[1] \in {CmdB, CmdBack} -> AfterCommand(go_back(a, w, net))
           [] parts[1] \in {CmdF, CmdFront} -> AfterCommand(go_forward(a, w, net))
           [] parts[1] = CmdUrl ->
                IF Len(parts) > 1
                THEN AfterCommand(navigate(a, parts[2], w, net))
                ELSE Outcome([a EXCEPT !.mode = "Normal"], FALSE, FALSE, 0, <<>>)
           [] OTHER ->
                Outcome([a EXCEPT !.status = Status("Unknown", parts[1]), !.mode = "Normal"],
                        FALSE, FALSE, 0, <<>>)

command_enter(a, w, net) == Dispatch(a, split_whitespace(a.command_buffer), w, net)

command_esc(a) == [a EXCEPT !.mode = "Normal"]

command_char(a, c) == [a EXCEPT !.command_buffer = Append(@, c)]

command_backspace(a) ==
    [a EXCEPT !.command_buffer = IF @ = <<>> THEN @ ELSE SubSeq(@, 1, Len(@) - 1)]

(* the status bar of the draw closure indexes links with the selection: a *)
(* selection past the end of a non-empty list panics                       *)
DrawPanics(a) == a.links # <<>> /\ a.selected_link_idx >= Len(a.links)

(* ---------------------------------------------------------------- inputs *)
StartUrl ==
    HTTPS \o <<"w", "w", "w", ".", "r", "u", "s", "t", "-", "l", "a", "n", "g", ".", "o", "r", "g">>

SiteA == HTTPS \o <<"a">>
SiteB == HTTP \o <<"b", "/">>
PageX == StartUrl \o <<"/", "x">>

(* the addresses the web serves and the document of each; every other     *)
(* address fails to fetch                                                  *)
TheWeb ==
    (StartUrl :> <<Heading1, Anchor, AnchorStrong>>)
    @@ (PageX :> <<Para, AnchorNoHref>>)
    @@ (SiteB :> <<Anchor, AnchorBadHref, AnchorStrong>>)
    @@ (SiteA :> <<Image, Anchor>>)

ImageUrl == SiteA \o <<"/", "i">>

(* the addresses that serve an image *)
TheImages == ImageUrl :> Img(160, 100, 255)

(* the images of the preview runs: sizes, and every luminance of a pixel *)
MaxLuma == 255

ImageSizes == { <<160, 100>>, <<160, 103>>, <<40, 3>>, <<16, 16>> }

Images == { Img(s[1], s[2], p) : s \in ImageSizes, p \in 0..MaxLuma }

(* the command lines the user types, a character at a time *)
CommandLines ==
    { CmdQ, CmdB, CmdF, <<"x">>, CmdUrl \o <<" ", "a">> }

KeyChars == {"q", "b", "f", "x", "u", "r", "l", " ", "a"}

IsTyped(buf) == \E line \in CommandLines : StartsWith(line, buf)

(* the addresses a caller of the app.rs API navigates to *)
CallerUrls == { <<"a">>, SiteB, PageX }

KeepLast3(s) == IF Len(s) <= 3 THEN s ELSE SubSeq(s, Len(s) - 2, Len(s))

(* ghost: the navigation calls of an outcome, each with how it ended *)
Traced(r) ==
    [i \in 1..Len(r.calls) |->
        [f |-> r.calls[i].f, arg |-> r.calls[i].arg, ok |-> ~r.err, fetches |-> r.fetches]]

(* ------------------------------------------------------------------ state *)
Init ==
    /\ build \in {"main", "app"}
    /\ web = TheWeb
    /\ images = TheImages
    /\ app = IF build = "main" THEN new(StartUrl) ELSE app_new(StartUrl)
    /\ pc = IF build = "main" THEN "start" ELSE "api"
    /\ screen = <<>>
    /\ last = [op |-> "new", err |-> FALSE, fetches |-> 0, calls |-> <<>>]
    /\ trail = <<>>

(* one pass of main's loop after the key was read: the handler's outcome,  *)
(* then the draw at the top of the next pass                               *)
Handled(op, r) ==
    /\ app' = r.app
    /\ pc' = IF r.err THEN "failed"
             ELSE IF r.brk THEN "quit"
             ELSE IF DrawPanics(r.app) THEN "panicked"
             ELSE "loop"
    /\ screen' = IF ~r.err /\ ~r.brk /\ ~DrawPanics(r.app) THEN render_content(r.app) ELSE screen
    /\ last' = [op |-> op, err |-> r.err, fetches |-> r.fetches, calls |-> r.calls]
    /\ trail' = KeepLast3(trail \o Traced(r))
    /\ UNCHANGED <<build, web, images>>

Quiet(a) == Outcome(a, FALSE, FALSE, 0, <<>>)

InLoop(mode) == build = "main" /\ pc = "loop" /\ app.mode = mode

(* main.rs 189-190: App::new, then the first fetch_page().await? *)
Start ==
    /\ build = "main" /\ pc = "start"
    /\ \E net \in BOOLEAN : Handled("start", fetch_page(app, web, net))

KeyColon == InLoop("Normal") /\ Handled(":", Quiet(key_colon(app)))

KeyJ == InLoop("Normal") /\ app.scroll < MaxScroll /\ Handled("j", Quiet(key_j(app)))

KeyK == InLoop("Normal") /\ Handled("k", Quiet(key_k(app)))

KeyL == InLoop("Normal") /\ Handled("l", Quiet(key_l(app)))

KeyH == InLoop("Normal") /\ Handled("h", Quiet(key_h(app)))

KeyEnter ==
    /\ InLoop("Normal")
    /\ app.links # <<>> => Len(app.history) < MaxHist
    /\ \E net \in BOOLEAN : Handled("enter", key_enter(app, web, net))

KeyOther == InLoop("Normal") /\ Handled("other", Quiet(app))

CommandEnter ==
    /\ InLoop("Command")
    /\ LET parts == split_whitespace(app.command_buffer)
       IN Len(parts) > 1 /\ parts[1] = CmdUrl => Len(app.history) < MaxHist
    /\ \E net \in BOOLEAN : Handled("command", command_enter(app, web, net))

CommandEsc == InLoop("Command") /\ Handled("esc", Quiet(command_esc(app)))

CommandChar ==
    /\ InLoop("Command")
    /\ \E c \in KeyChars :
          /\ IsTyped(Append(app.command_buffer, c))
          /\ Handled("char", Quiet(command_char(app, c)))

CommandBackspace == InLoop("Command") /\ Handled("backspace", Quiet(command_backspace(app)))

CommandOther == InLoop("Command") /\ Handled("other", Quiet(app))

(* a call of the app.rs API: the outcome, then ui::draw *)
Called(op, r) ==
    /\ app' = r.app
    /\ pc' = IF DrawPanics(r.app) THEN "panicked" ELSE "api"
    /\ screen' = IF DrawPanics(r.app) THEN screen ELSE app_render_content(r.app)
    /\ last' = [op |-> op, err |-> r.err, fetches |-> r.fetches, calls |-> r.calls]
    /\ trail' = KeepLast3(trail \o Traced(r))
    /\ UNCHANGED <<build, web, images>>

ApiFetchPage ==
    /\ build = "app" /\ pc = "api"
    /\ \E net \in BOOLEAN : Called("fetch_page", app_fetch_page(app, web, net))

ApiNavigate ==
    /\ build = "app" /\ pc = "api"
    /\ Len(app.history) < MaxHist
    /\ \E url \in CallerUrls \cup {app.links[i].url : i \in 1..Len(app.links)}, net \in BOOLEAN :
          Called("navigate", app_navigate(app, url, web, net))

(* a call of App::preview_image, then ui::draw with the popup *)
ApiPreviewImage ==
    /\ build = "app" /\ pc = "api"
    /\ \E url \in DOMAIN images \cup {PageX}
                  \cup {app.links[i].url : i \in {j \in 1..Len(app.links) :
                                                    app.links[j].link_type = "Image"}},
          net \in BOOLEAN :
          LET r == preview_image(app, url, web, images, net)
          IN /\ app' = r.app
             /\ last' = [op |-> "preview_image", err |-> r.err, fetches |-> r.fetches,
                         calls |-> r.calls]
             /\ screen' = app_render_content(r.app)
             /\ UNCHANGED <<build, web, images, pc, trail>>

Next ==
    \/ Start
    \/ KeyColon
    \/ KeyJ
    \/ KeyK
    \/ KeyL
    \/ KeyH
    \/ KeyEnter
    \/ KeyOther
    \/ CommandEnter
    \/ CommandEsc
    \/ CommandChar
    \/ CommandBackspace
    \/ CommandOther
    \/ ApiFetchPage
    \/ ApiNavigate
    \/ ApiPreviewImage

Spec == Init /\ [][Next]_vars

(* One document, converted and rendered: the converter and the overlay   *)
(* over every document of at most MaxDocLen elements, in both builds.     *)
InitConvert ==
    /\ build \in {"main", "app"}
    /\ web \in {StartUrl :> d : d \in Docs}
    /\ images = TheImages
    /\ app = IF build = "main" THEN new(StartUrl) ELSE app_new(StartUrl)
    /\ pc = IF build = "main" THEN "start" ELSE "api"
    /\ screen = <<>>
    /\ last = [op |-> "new", err |-> FALSE, fetches |-> 0, calls |-> <<>>]
    /\ trail = <<>>

NextConvert ==
    \/ Start
    \/ KeyL
    \/ KeyH
    \/ ApiFetchPage

SpecConvert == InitConvert /\ [][NextConvert]_vars

(* Sessions of either build, the App of app.rs made with a start address   *)
(* or with none.                                                           *)
InitAnyStart ==
    /\ build \in {"main", "app"}
    /\ web = TheWeb
    /\ images = TheImages
    /\ app \in IF build = "main" THEN {new(StartUrl)} ELSE {app_new(StartUrl), app_new(<<>>)}
    /\ pc = IF build = "main" THEN "start" ELSE "api"
    /\ screen = <<>>
    /\ last = [op |-> "new", err |-> FALSE, fetches |-> 0, calls |-> <<>>]
    /\ trail = <<>>

SpecAnyStart == InitAnyStart /\ [][Next]_vars

(* One image, previewed: the image-to-text converter over every size of   *)
(* ImageSizes and every luminance.                                        *)
InitPreview ==
    /\ build = "app"
    /\ web = TheWeb
    /\ images \in {ImageUrl :> img : img \in Images}
    /\ app = app_new(StartUrl)
    /\ pc = "api"
    /\ screen = <<>>
    /\ last = [op |-> "new", err |-> FALSE, fetches |-> 0, calls |-> <<>>]
    /\ trail = <<>>

NextPreview == ApiPreviewImage

SpecPreview == InitPreview /\ [][NextPreview]_vars

(* ------------------------------------------------------------ properties *)
(* the navigation call of the step that `l` records, "none" when it made none *)
NavCall(l) == IF l.calls # <<>> THEN l.calls[1].f ELSE "none"

SameNavigation(a, b) ==
    /\ a.history = b.history
    /\ a.future = b.future
    /\ a.current_url = b.current_url

SameContent(a, b) ==
    /\ a.content_lines = b.content_lines
    /\ a.links = b.links
    /\ a.selected_link_idx = b.selected_link_idx
    /\ a.scroll = b.scroll

(* C1: when the fetch/convert step of navigate, back or forward fails, the *)
(* history stack, the future stack and the current address are exactly     *)
(* what they were before the operation started.                            *)
C1_NavigationKeptOnFailure ==
    [][(last'.err /\ NavCall(last') # "none") => SameNavigation(app', app)]_vars

(* C2: after every navigate the future stack is empty, whatever history    *)
(* and future held before; back and forward never clear the opposite       *)
(* stack: back adds the current address to future, forward adds it to      *)
(* history, and with nothing to pop they leave both stacks alone.          *)
C2_NavigateClearsFuture ==
    [][/\ NavCall(last') = "navigate" => app'.future = <<>>
       /\ (NavCall(last') = "go_back" /\ app.history # <<>>)
             => app'.future = Append(app.future, app.current_url)
       /\ (NavCall(last') = "go_back" /\ app.history = <<>>)
             => app'.future = app.future
       /\ (NavCall(last') = "go_forward" /\ app.future # <<>>)
             => app'.history = Append(app.history, app.current_url)
       /\ (NavCall(last') = "go_forward" /\ app.future = <<>>)
             => app'.history = app.history]_vars

(* a navigate that found a non-empty future (a back that moved came right  *)
(* before it) and left it empty                                            *)
C2_Witness ==
    /\ Len(trail) >= 2
    /\ trail[Len(trail)].f = "navigate"
    /\ trail[Len(trail) - 1].f = "go_back"
    /\ trail[Len(trail) - 1].fetches = 1
    /\ trail[Len(trail) - 1].ok
    /\ NavCall(last) = "navigate"
    /\ app.history # <<>>
    /\ app.future = <<>>

(* C3: back() with an empty history stack and forward() with an empty      *)
(* future stack change nothing but the status message: the current         *)
(* address, both stacks, the content lines, the links, the selection and   *)
(* the scroll are unchanged and no fetch is made.                          *)
C3_EmptyStackChangesOnlyStatus ==
    [][(\/ NavCall(last') = "go_back" /\ app.history = <<>>
        \/ NavCall(last') = "go_forward" /\ app.future = <<>>)
       => /\ last'.fetches = 0
          /\ ~last'.err
          /\ SameNavigation(app', app)
          /\ SameContent(app', app)
          /\ app'.command_buffer = app.command_buffer]_vars

(* both no-ops were taken: a back and a forward that made no fetch *)
C3_Witness ==
    /\ \E i \in 1..Len(trail) : trail[i].f = "go_back" /\ trail[i].fetches = 0
    /\ \E i \in 1..Len(trail) : trail[i].f = "go_forward" /\ trail[i].fetches = 0
    /\ app.status.msg \in {"No back history", "No forward history"}

(* C4: from any state of a live session with a non-empty history, back()  *)
(* followed at once by forward(), both fetches succeeding, restores the    *)
(* current address, the history stack, the future stack and the content.   *)
C4_BackThenForwardRestores ==
    (build = "main" /\ pc = "loop" /\ app.history # <<>>)
    => LET b == go_back(app, web, TRUE)
           f == go_forward(b.app, web, TRUE)
       IN /\ ~b.err /\ b.fetches = 1
          /\ ~f.err /\ f.fetches = 1
          /\ SameNavigation(f.app, app)
          /\ f.app.content_lines = app.content_lines
          /\ f.app.links = app.links

(* a back that moved, then a forward that moved, in a session with history *)
C4_Witness ==
    /\ build = "main" /\ pc = "loop"
    /\ Len(trail) >= 2
    /\ trail[Len(trail) - 1].f = "go_back" /\ trail[Len(trail) - 1].fetches = 1
    /\ trail[Len(trail)].f = "go_forward" /\ trail[Len(trail)].fetches = 1
    /\ trail[Len(trail)].ok
    /\ app.history # <<>>
    /\ app.content_lines # <<>>

(* the last three navigation calls were navigate(A), navigate(B), back(), *)
(* every fetch succeeding                                                  *)
NavigateNavigateBack ==
    /\ Len(trail) = 3
    /\ trail[1].f = "navigate" /\ trail[1].ok
    /\ trail[2].f = "navigate" /\ trail[2].ok
    /\ trail[3].f = "go_back" /\ trail[3].ok /\ trail[3].fetches = 1
    /\ NavCall(last) = "go_back"

(* C5 as stated: after navigate(A), navigate(B), back() the current        *)
(* address is A, the future stack is empty and a subsequent forward() is a *)
(* no-op.                                                                  *)
C5_FutureEmptyAfterBack ==
    NavigateNavigateBack
    => /\ app.current_url = trail[1].arg
       /\ app.future = <<>>
       /\ go_forward(app, web, TRUE).fetches = 0

(* C5 amended: after navigate(A), navigate(B), back() the current address  *)
(* is A, the future stack holds exactly B, and a subsequent forward()      *)
(* returns to B and leaves the future stack empty.                         *)
C5_FutureHoldsBAfterBack ==
    NavigateNavigateBack
    => /\ app.current_url = trail[1].arg
       /\ app.future = <<trail[2].arg>>
       /\ LET f == go_forward(app, web, TRUE)
          IN /\ f.fetches = 1 /\ ~f.err
             /\ f.app.current_url = trail[2].arg
             /\ f.app.future = <<>>
             /\ f.app.history = Append(app.history, trail[1].arg)

C5_Witness == NavigateNavigateBack /\ pc = "loop" /\ trail[1].arg # trail[2].arg

(* C6: in every reachable state the selection index is in [0, links.len()) *)
(* when the link list is non-empty and 0 when it is empty, so the status   *)
(* bar's links[selected_link_idx] never panics.                            *)
C6_SelectionInRange ==
    /\ pc # "panicked"
    /\ app.links # <<>> => app.selected_link_idx \in 0..(Len(app.links) - 1)
    /\ app.links = <<>> => app.selected_link_idx = 0
    /\ ~DrawPanics(app)

(* the selection wrapped from 0 to the last of three links *)
C6_Witness ==
    /\ last.op = "h"
    /\ Len(app.links) = 3
    /\ app.selected_link_idx = 2
    /\ pc = "loop"

RECURSIVE Flatten(_)
Flatten(lines) == IF lines = <<>> THEN <<>> ELSE Head(lines) \o Flatten(Tail(lines))

(* the test by which the overlay of the running build takes a run for a link *)
Recognized(s) ==
    IF build = "main" THEN s.style.fg = "Blue"
    ELSE s.style.fg = LINK_COLOR_WEB \/ s.style.fg = LINK_COLOR_IMG

(* the run was pushed at the place of the converter that pushes a link *)
IsLinkRun(s) == s.origin \in {"a", "link"}

LinkRunsUpTo(runs, k) == Len(SelectSeq(SubSeq(runs, 1, k), IsLinkRun))

Corresponds(link, run) ==
    IF build = "main"
    THEN run.content = <<" ", "[">> \o link.text \o <<"]", " ">>
    ELSE /\ link.link_type = "Web" <=> run.style.fg = LINK_COLOR_WEB
         /\ link.link_type = "Image" <=> run.style.fg = LINK_COLOR_IMG

(* C7: for any converted document the length of the link list equals the   *)
(* number of runs the overlay recognizes as links, link entry i            *)
(* corresponds to the i-th such run in document order (in app.rs the index *)
(* label before it reads i), and no non-link run is counted as a link run. *)
C7_LinksMatchLinkRuns ==
    LET runs == Flatten(app.content_lines)
        tagged == SelectSeq(runs, Recognized)
    IN /\ Len(app.links) = Len(tagged)
       /\ tagged = SelectSeq(runs, IsLinkRun)
       /\ \A i \in 1..Len(tagged) : i <= Len(app.links) => Corresponds(app.links[i], tagged[i])
       /\ \A k \in 1..Len(runs) :
             runs[k].origin = "link"
             => /\ k > 1
                /\ runs[k - 1].origin = "label"
                /\ runs[k - 1].content = <<"[">> \o Decimal(LinkRunsUpTo(runs, k) - 1) \o <<"]">>

(* a converted document with a link and a styled run that is no link *)
C7_Witness ==
    /\ build = "main"
    /\ last.op = "start" /\ ~last.err
    /\ Len(app.links) = 1
    /\ \E l \in 1..Len(app.content_lines) : app.content_lines[l][1].origin = "h2"

RenderOf(a) == IF build = "main" THEN render_content(a) ELSE app_render_content(a)

(* C8: for every i in [0, links.len()) render with selected index i        *)
(* changes the style of exactly one run, the i-th link run in document     *)
(* order, every other run keeps its text and style and every line its      *)
(* runs; with an empty link list no run is highlighted; and what the draw  *)
(* shows is the render of the state.                                       *)
C8_RenderHighlightsSelected ==
    LET src == Flatten(app.content_lines)
    IN /\ \A i \in 0..(Len(app.links) - 1) :
             LET out == RenderOf([app EXCEPT !.selected_link_idx = i])
                 outs == Flatten(out)
                 changed == {k \in 1..Len(src) : outs[k] # src[k]}
             IN /\ Len(out) = Len(app.content_lines)
                /\ \A l \in 1..Len(out) : Len(out[l]) = Len(app.content_lines[l])
                /\ \A k \in 1..Len(src) : outs[k].content = src[k].content
                /\ Cardinality(changed) = 1
                /\ \A k \in changed :
                      /\ IsLinkRun(src[k])
                      /\ LinkRunsUpTo(src, k) = i + 1
                      /\ outs[k].style # src[k].style
                      /\ outs[k].style.bg = "Yellow"
       /\ app.links = <<>> => RenderOf(app) = app.content_lines
       /\ pc \in {"loop", "api"} /\ last.op # "new" => screen = RenderOf(app)

(* the second of two links is selected and drawn highlighted *)
C8_Witness ==
    /\ build = "main" /\ pc = "loop"
    /\ Len(app.links) = 2
    /\ app.selected_link_idx = 1
    /\ screen # app.content_lines
    /\ \E l \in 1..Len(screen) : screen[l][1].style.bg = "Yellow"

(* C9: when a fetch or conversion fails during navigate, back, forward or  *)
(* a page load, the content lines, the link list, the selection index and  *)
(* the scroll offset are exactly what they were before the operation.      *)
C9_ContentKeptOnFailure ==
    [][last'.err => (last'.fetches = 1 /\ SameContent(app', app))]_vars

(* a failed fetch in a session that showed a page, scrolled, with a link   *)
(* other than the first selected                                           *)
C9_Witness ==
    /\ last.err
    /\ app.content_lines # <<>>
    /\ app.links # <<>>
    /\ app.selected_link_idx > 0
    /\ app.scroll > 0

(* C10: a failed fetch triggered by a key or a command (link activation,   *)
(* url, back, forward) never ends the session: the loop goes on and an     *)
(* error status is shown.                                                  *)
C10_FailureKeepsSession ==
    (build = "main" /\ last.err /\ last.op \in {"enter", "command"})
    => /\ pc = "loop"
       /\ app.status.msg = "Error"

(* C11: the link-cycle keys wrap modulo links.len(): with n links and the  *)
(* selection at i, "next" sets it to (i + 1) mod n and "previous" to       *)
(* (i - 1 + n) mod n; with no links both leave the selection at 0.         *)
C11_CycleWrapsModulo ==
    [][/\ (last'.op = "l" /\ app.links # <<>>)
             => app'.selected_link_idx = (app.selected_link_idx + 1) % Len(app.links)
       /\ (last'.op = "h" /\ app.links # <<>>)
             => app'.selected_link_idx
                   = (app.selected_link_idx - 1 + Len(app.links)) % Len(app.links)
       /\ (last'.op \in {"l", "h"} /\ app.links = <<>>)
             => app.selected_link_idx = 0 /\ app'.selected_link_idx = 0
       /\ last'.op \in {"l", "h"} => app'.links = app.links]_vars

(* "previous" wrapped from the first to the last of two links *)
C11_Witness ==
    /\ last.op = "h"
    /\ Len(app.links) = 2
    /\ app.selected_link_idx = 1
    /\ pc = "loop"

(* C12 as stated: with three links and the selection at 0, four "next"     *)
(* operations return the selection to 0 and one "previous" lands on 2.     *)
C12_FourNextsReturnToZero ==
    (build = "main" /\ pc = "loop" /\ Len(app.links) = 3 /\ app.selected_link_idx = 0)
    => /\ key_l(key_l(key_l(key_l(app)))).selected_link_idx = 0
       /\ key_h(app).selected_link_idx = 2

(* C12 amended: with three links and the selection at 0, three "next"      *)
(* operations return the selection to 0 (the fourth lands on 1) and one    *)
(* "previous" lands on 2.                                                  *)
C12_ThreeNextsReturnToZero ==
    (build = "main" /\ pc = "loop" /\ Len(app.links) = 3 /\ app.selected_link_idx = 0)
    => /\ key_l(app).selected_link_idx = 1
       /\ key_l(key_l(app)).selected_link_idx = 2
       /\ key_l(key_l(key_l(app))).selected_link_idx = 0
       /\ key_l(key_l(key_l(key_l(app)))).selected_link_idx = 1
       /\ key_h(app).selected_link_idx = 2

(* "next" brought the selection of a three-link page back to 0 *)
C12_Witness ==
    /\ build = "main" /\ pc = "loop"
    /\ last.op = "l"
    /\ Len(app.links) = 3
    /\ app.selected_link_idx = 0

(* C13: in Command mode Enter leaves the session in Normal mode for every  *)
(* buffer other than quit (recognized, unrecognized, empty, url with no    *)
(* argument), and an unrecognized command changes nothing but the status   *)
(* message.                                                                *)
C13_CommandEnterReturnsToNormal ==
    [][/\ (last'.op = "command" /\ pc' # "quit")
             => pc' = "loop" /\ app'.mode = "Normal"
       /\ (last'.op = "command" /\ app'.status.msg = "Unknown")
             => /\ last'.fetches = 0
                /\ SameNavigation(app', app)
                /\ SameContent(app', app)]_vars

(* C13, the part the code keeps: Enter on a command whose fetch does not   *)
(* fail, or that makes none, leaves Normal mode, and an unrecognized       *)
(* command changes only status and mode.                                   *)
C13_CommandEnterWithoutFailure ==
    [][/\ (last'.op = "command" /\ pc' # "quit" /\ ~last'.err)
             => pc' = "loop" /\ app'.mode = "Normal"
       /\ (last'.op = "command" /\ pc' # "quit" /\ app'.status.msg = "Unknown")
             => app' = [app EXCEPT !.status = app'.status, !.mode = "Normal"]]_vars

(* C14: in Command mode Escape returns to Normal and executes nothing:     *)
(* address, stacks and content are unchanged and no fetch is made; ':'     *)
(* empties the buffer on entry, so text typed before an Escape is in no    *)
(* command executed later.                                                 *)
C14_EscapeDiscards ==
    [][/\ last'.op = "esc"
             => /\ app' = [app EXCEPT !.mode = "Normal"]
                /\ last'.fetches = 0 /\ last'.calls = <<>> /\ ~last'.err
                /\ pc' = "loop"
       /\ last'.op = ":"
             => /\ app'.mode = "Command"
                /\ app'.command_buffer = <<>>
       /\ (last'.op = "command" /\ app.command_buffer # <<>>)
             => last.op \in {"char", "backspace", "other"}]_vars

(* text was typed and Escape left Command mode with it *)
C14_Witness ==
    /\ last.op = "esc"
    /\ app.mode = "Normal"
    /\ app.command_buffer # <<>>
    /\ pc = "loop"

HasScheme(u) == StartsWith(u, HTTP) \/ StartsWith(u, HTTPS)

(* navigate of the running build *)
NavigateOf(a, url, net) ==
    IF build = "main" THEN navigate(a, url, web, net) ELSE app_navigate(a, url, web, net)

(* C15: in a session that starts with an http:// or https:// address, the  *)
(* current address and every address of history and future starts with     *)
(* http:// or https:// in every reachable state; navigate on an input with *)
(* neither prefix stores "https://" + input, and an input with one is      *)
(* stored as given.                                                        *)
C15_AddressesHaveScheme ==
    /\ HasScheme(app.current_url)
    /\ \A i \in 1..Len(app.history) : HasScheme(app.history[i])
    /\ \A i \in 1..Len(app.future) : HasScheme(app.future[i])
    /\ \A url \in CallerUrls \cup {app.links[i].url : i \in 1..Len(app.links)}, net \in BOOLEAN :
          NavigateOf(app, url, net).app.current_url
             = IF HasScheme(url) THEN url ELSE HTTPS \o url

(* the command `url a` stored https://a over a history that holds the      *)
(* start address                                                           *)
C15_Witness ==
    /\ last.op = "command"
    /\ NavCall(last) = "navigate"
    /\ app.current_url = HTTPS \o <<"a">>
    /\ app.history # <<>>
    /\ app.history[1] = StartUrl

(* C16: the image preview, whether it succeeds or fails, leaves the        *)
(* current address, history, future, content lines, link list, selection   *)
(* and scroll unchanged; on success only the ImagePreview slot and the     *)
(* status change.                                                          *)
C16_PreviewKeepsPage ==
    [][last'.op = "preview_image"
       => /\ SameNavigation(app', app)
          /\ SameContent(app', app)
          /\ app' = [app EXCEPT !.status = app'.status, !.image_preview = app'.image_preview]
          /\ ~last'.err => app'.image_preview # <<>>]_vars

(* a preview opened over a page with links, reached through a navigation *)
C16_Witness ==
    /\ last.op = "preview_image" /\ ~last.err
    /\ app.image_preview # <<>>
    /\ app.history # <<>>
    /\ app.content_lines # <<>>
    /\ app.links # <<>>

(* C17: when the image bytes cannot be fetched or decoded, preview_image   *)
(* returns an error and the ImagePreview slot keeps its prior value: unset *)
(* if it was unset, the grid that was open if one was open.                *)
C17_FailedPreviewKeepsSlot ==
    [][last'.op = "preview_image"
       => /\ last'.err => app'.image_preview = app.image_preview
          /\ last'.calls[1].arg \notin DOMAIN images => last'.err
          /\ (last'.calls[1].arg \in DOMAIN images /\ ~images[last'.calls[1].arg].ok)
                => last'.err]_vars

(* a preview of bytes that are no image failed with a grid open *)
C17_Witness ==
    /\ last.op = "preview_image" /\ last.err
    /\ last.calls[1].arg = PageX
    /\ app.image_preview # <<>>

(* C18: for every luminance p in 0..255 the glyph index is                 *)
(* floor(p * (ramp_length - 1) / 255) over the 14-glyph ramp: a valid ramp *)
(* index (0..13), non-decreasing in p, 0 for the space at p = 0 and the    *)
(* last index, the densest glyph, at p = 255.                              *)
C18_GlyphIndex ==
    app.image_preview # <<>>
    => LET p == images[ImageUrl].p
           aa == app.image_preview[1]
       IN /\ Len(charset) = 14
          /\ idx(p) = (p * (14 - 1)) \div 255
          /\ idx(p) \in 0..13
          /\ \A q \in 0..p : idx(q) <= idx(p)
          /\ p = 0 => idx(p) = 0 /\ charset[idx(p) + 1] = " "
          /\ p = 255 => idx(p) = 13 /\ charset[idx(p) + 1] = "@"
          /\ \A y \in 1..Len(aa) : \A x \in 1..Len(aa[y]) :
                aa[y][x] = charset[((p * (14 - 1)) \div 255) + 1]

(* the preview of a white image: every character is the densest glyph *)
C18_Witness ==
    /\ last.op = "preview_image" /\ ~last.err
    /\ images[ImageUrl].p = 255
    /\ app.image_preview # <<>>
    /\ app.image_preview[1] # <<>>
    /\ app.image_preview[1][1][1] = "@"

(* C19: for an image of w x h pixels and target_width 80 the preview grid  *)
(* has exactly new_height rows of exactly target_width characters each,    *)
(* where new_height = round(target_width * (h / w) * 0.5).                 *)
C19_GridRowsRounded ==
    app.image_preview # <<>>
    => LET img == images[ImageUrl]
           aa == app.image_preview[1]
       IN /\ Len(aa) = (2 * 80 * img.h + 2 * img.w) \div (4 * img.w)
          /\ \A y \in 1..Len(aa) : Len(aa[y]) = 80

(* C19, what the code computes: the rows are the product cut off to an     *)
(* integer, floor(target_width * (h / w) * 0.5), each of target_width      *)
(* characters.                                                             *)
C19_GridRowsTruncated ==
    app.image_preview # <<>>
    => LET img == images[ImageUrl]
           aa == app.image_preview[1]
       IN /\ Len(aa) = (80 * img.h) \div (2 * img.w)
          /\ \A y \in 1..Len(aa) : Len(aa[y]) = 80

(* C20: navigate pushes the previous current address as the new top of     *)
(* history exactly once when it is non-empty and nothing when it is empty, *)
(* leaves the older entries in place and in order, and sets current to the *)
(* normalized new address; history is never de-duplicated or truncated.    *)
C20_NavigatePushesOnce ==
    [][NavCall(last') = "navigate"
       => /\ app'.history = IF app.current_url # <<>>
                            THEN Append(app.history, app.current_url)
                            ELSE app.history
          /\ app'.current_url = last'.calls[1].arg
          /\ HasScheme(app'.current_url)]_vars

(* three navigations to one address from an App made with no address: the  *)
(* first pushed nothing, the next two pushed the same address twice        *)
C20_Witness ==
    /\ build = "app"
    /\ Len(trail) = 3
    /\ \A i \in 1..3 : trail[i].f = "navigate" /\ trail[i].arg = PageX
    /\ app.history = <<PageX, PageX>>
    /\ app.current_url = PageX

Reverse(s) == [i \in 1..Len(s) |-> s[Len(s) + 1 - i]]

(* the addresses of the session in order: history, current, future from    *)
(* its top down                                                            *)
AddressLine(a) == a.history \o <<a.current_url>> \o Reverse(a.future)

(* C21: back() and forward() only move a cursor over a fixed sequence of   *)
(* addresses: history ++ [current] ++ reverse(future) is the same before   *)
(* and after every successful back() or forward(), so len(history) +       *)
(* len(future) is preserved and no address is lost, duplicated or          *)
(* reordered by any interleaving of the two.                               *)
C21_BackForwardMoveCursor ==
    [][(NavCall(last') \in {"go_back", "go_forward"} /\ ~last'.err)
       => /\ AddressLine(app') = AddressLine(app)
          /\ Len(app'.history) + Len(app'.future) = Len(app.history) + Len(app.future)
          /\ last'.fetches = 1
                => Len(app'.history) # Len(app.history)]_vars

(* back, forward, back, each with its fetch, over a line of three          *)
(* addresses                                                               *)
C21_Witness ==
    /\ pc = "loop"
    /\ Len(trail) = 3
    /\ trail[1].f = "go_back" /\ trail[1].ok /\ trail[1].fetches = 1
    /\ trail[2].f = "go_forward" /\ trail[2].ok /\ trail[2].fetches = 1
    /\ trail[3].f = "go_back" /\ trail[3].ok /\ trail[3].fetches = 1
    /\ Len(AddressLine(app)) = 3
    /\ app.history # <<>> /\ app.future # <<>>

====
